---- MODULE Spec2Model ----
(***************************************************************************)
(* Model of the Handlebars helper registry of el-hbs (src/index.js).       *)
(*                                                                         *)
(* The registry is a set of functions the template engine calls one after  *)
(* another.  A state of the model is the situation right after one call:   *)
(* which helper ran, the arguments as they were passed, the same arguments *)
(* as they are after the call, the value returned (or the error raised),   *)
(* the global object's properties the helpers have written so far, and the *)
(* calls the helper made to the URL builder and the random number source.  *)
(*                                                                         *)
(* JavaScript strings are sequences of characters.  A character is a       *)
(* one-character TLA+ string; opaque atoms ("audio", "res.cloudinary.com", *)
(* "upload") stand for runs of characters in which no search pattern of    *)
(* the code ('http', 'v1', './public/', 'audio/', ' ') can begin or end,   *)
(* so that substring search over atoms finds what substring search over    *)
(* characters finds.  The packages the helpers call (moment, cloudinary,   *)
(* handlebars, pluralize, random-number) are modelled by what their calls  *)
(* return.                                                                 *)
(***************************************************************************)
EXTENDS Integers, Sequences, FiniteSets, TLC

VARIABLES helper, scope, args, argsAfter, ret, globals, collab

vars == <<helper, scope, args, argsAfter, ret, globals, collab>>

(***************************************************************************)
(* Bounds of the model.                                                    *)
(***************************************************************************)
MaxLen == 2        \* longest string enumerated for trim, limit, pluralize
MaxLimit == 3      \* largest length argument of limit
MaxBodyLen == 1    \* longest URL body enumerated for secureUrl

(***************************************************************************)
(* JavaScript values.                                                      *)
(***************************************************************************)
Undefined == [t |-> "undefined"]
Null == [t |-> "null"]
Str(s) == [t |-> "string", v |-> s]
Num(n) == [t |-> "number", v |-> n]
Bool(b) == [t |-> "boolean", v |-> b]
Obj(p) == [t |-> "object", props |-> p]
TypeError == [t |-> "TypeError"]

IsStr(x) == x.t = "string"
IsObj(x) == x.t = "object"
Raised(x) == x.t = "TypeError"

\* obj.key: undefined when the object has no such property
Get(obj, key) == IF key \in DOMAIN obj.props THEN obj.props[key] ELSE Undefined

\* obj.key = value, on the object itself
SetProp(obj, key, value) == Obj((key :> value) @@ obj.props)

\* obj.hasOwnProperty(key)
HasOwn(obj, key) == IsObj(obj) /\ key \in DOMAIN obj.props

\* JavaScript truthiness of the values the model uses
Truthy(x) ==
    CASE x.t = "undefined" -> FALSE
      [] x.t = "null" -> FALSE
      [] x.t = "boolean" -> x.v
      [] x.t = "string" -> x.v # <<>>
      [] OTHER -> TRUE

(***************************************************************************)
(* String primitives of the language.                                      *)
(***************************************************************************)
SeqsUpTo(S, n) == UNION {[1..k -> S] : k \in 0..n}

\* s.indexOf(pat), 1-based; 0 stands for JavaScript's -1
IndexOf(s, pat) ==
    LET hits == {i \in 1..(Len(s) - Len(pat) + 1) : SubSeq(s, i, i + Len(pat) - 1) = pat}
    IN IF hits = {} THEN 0 ELSE CHOOSE i \in hits : \A j \in hits : i <= j

Contains(s, pat) == IndexOf(s, pat) # 0

StartsWith(s, pat) == Len(s) >= Len(pat) /\ SubSeq(s, 1, Len(pat)) = pat

\* s.replace(pat, rep) with a string pattern: the first occurrence only
ReplaceFirst(s, pat, rep) ==
    LET i == IndexOf(s, pat)
    IN IF i = 0 THEN s
       ELSE SubSeq(s, 1, i - 1) \o rep \o SubSeq(s, i + Len(pat), Len(s))

\* s.replace(/c/g, rep) for a one-character pattern: every occurrence
RECURSIVE ReplaceAllChar(_, _, _)
ReplaceAllChar(s, c, rep) ==
    IF s = <<>> THEN <<>>
    ELSE (IF Head(s) = c THEN rep ELSE <<Head(s)>>) \o ReplaceAllChar(Tail(s), c, rep)

\* The characters with a lowercase mapping, and that mapping.  U+0130 (capital
\* I with dot above) lowercases to two code units, i followed by U+0307.
Upper == {"A", "B", "U+0130"}
LowerOf(c) ==
    CASE c = "A" -> <<"a">>
      [] c = "B" -> <<"b">>
      [] c = "U+0130" -> <<"i", "U+0307">>
      [] OTHER -> <<c>>

\* s.toLowerCase()
RECURSIVE ToLowerCase(_)
ToLowerCase(s) ==
    IF s = <<>> THEN <<>> ELSE LowerOf(Head(s)) \o ToLowerCase(Tail(s))

(***************************************************************************)
(* The helpers that are pure functions of strings.                         *)
(***************************************************************************)
trim_firstSpaceOnly(str) == Str(ToLowerCase(ReplaceFirst(str.v, <<" ">>, <<"-">>)))

\* _helpers.trim
trim(str) == Str(ToLowerCase(ReplaceAllChar(str.v, " ", <<"-">>)))

Dots == <<".", ".", ".">>

limit_strictLess(str, length) ==
    IF Len(str.v) < length.v THEN str ELSE Str(SubSeq(str.v, 1, length.v) \o Dots)

\* _helpers.limit
limit(str, length) ==
    IF Len(str.v) <= length.v THEN str ELSE Str(SubSeq(str.v, 1, length.v) \o Dots)

\* pluralize.plural of the pluralize package, for a regular noun: the rule
\* /s?$/ appends an s in the case of the character before it
pluralize_plural(str) ==
    IF str = <<>> THEN <<>>
    ELSE IF str[Len(str)] \in Upper THEN str \o <<"S">> ELSE str \o <<"s">>

\* _helpers.pluralize
pluralize(str) == Str(pluralize_plural(str.v))

\* _helpers.trimPluralize
trimPluralize(str) == trim(pluralize(str))

HTTP == <<"h", "t", "t", "p", ":", "/", "/">>
HTTPS == <<"h", "t", "t", "p", "s", ":", "/", "/">>

secureUrl_replaceHttp(str) ==
    IF str # Undefined
    THEN IF IsStr(str) THEN Str(ReplaceFirst(str.v, <<"h", "t", "t", "p">>, <<"h", "t", "t", "p", "s">>)) ELSE TypeError
    ELSE str

\* _helpers.secureUrl; null has no replace method
secureUrl(str) ==
    IF str # Undefined
    THEN IF IsStr(str) THEN Str(ReplaceFirst(str.v, HTTP, HTTPS)) ELSE TypeError
    ELSE str

(***************************************************************************)
(* fileType                                                                *)
(***************************************************************************)
WordKey == "vnd.openxmlformats-officedocument.wordprocessingml.document"
PowerpointKey == "vnd.openxmlformats-officedocument.presentationml.presentation"
ExcelKey == "vnd.openxmlformats-officedocument.spreadsheetml.sheet"

\* var cssTypesApp
cssTypesApp ==
    (<<"pdf">> :> <<"pdf">>) @@ (<<"zip">> :> <<"zip">>) @@ (<<"ogg">> :> <<"audio">>)
    @@ (<<WordKey>> :> <<"word">>) @@ (<<PowerpointKey>> :> <<"powerpoint">>)
    @@ (<<ExcelKey>> :> <<"excel">>)

\* _helpers.fileType; a filetype that is neither undefined nor a string (null)
\* has no indexOf method
fileType(file) ==
    LET fileType == Get(file, "filetype")
    IN IF fileType = Undefined THEN Str(<<"file">>)
       ELSE IF ~IsStr(fileType) THEN TypeError
       ELSE IF Contains(fileType.v, <<"audio", "/">>) THEN Str(<<"audio", "-o">>)
       ELSE IF Contains(fileType.v, <<"video", "/">>) THEN Str(<<"video", "-o">>)
       ELSE IF Contains(fileType.v, <<"image", "/">>) THEN Str(<<"image", "-o">>)
       ELSE LET mimeType == ReplaceFirst(fileType.v, <<"application", "/">>, <<>>)
            IN IF mimeType \in DOMAIN cssTypesApp
               THEN Str(cssTypesApp[mimeType] \o <<"-o">>)
               ELSE Str(<<"file">>)

(***************************************************************************)
(* img                                                                     *)
(***************************************************************************)
\* new hbs.SafeString(string)
new_SafeString(string) == [t |-> "SafeString", string |-> string]

\* hbs.SafeString(string) called as a plain function.  The constructor body is
\* this.string = string.  In a strict-mode build of handlebars this is
\* undefined and the assignment raises; otherwise this is the global object,
\* the assignment writes the global string, and the call returns undefined.
hbs_SafeString(string, g, strictBuild) ==
    IF strictBuild
    THEN [ret |-> TypeError, globals |-> g]
    ELSE [ret |-> Undefined, globals |-> [g EXCEPT !.string = string]]

\* the replacement hbs.escapeExpression makes for one character
EscapeChar(c) ==
    CASE c = "'" -> <<"&#x27;">>
      [] c = "<" -> <<"&lt;">>
      [] c = "&" -> <<"&amp;">>
      [] OTHER -> <<c>>

RECURSIVE EscapeChars(_)
EscapeChars(s) == IF s = <<>> THEN <<>> ELSE EscapeChar(Head(s)) \o EscapeChars(Tail(s))

\* hbs.escapeExpression: '' for undefined and null
escapeExpression(x) == IF IsStr(x) THEN EscapeChars(x.v) ELSE <<>>

PublicPrefix == <<".", "/", "public", "/">>

\* _helpers.img; path and filename are assigned without a declaration, so they
\* are properties of the global object
img(image, g, strictBuild) ==
    IF Get(image, "filename") \in {Undefined, Null}
    THEN hbs_SafeString(Str(<<>>), g, strictBuild)
    ELSE LET path == ReplaceFirst(escapeExpression(Get(image, "path")), PublicPrefix, <<>>)
             filename == escapeExpression(Get(image, "filename"))
         IN [ret |-> new_SafeString(<<"<img src='">> \o path \o <<"/">> \o filename
                                     \o <<"' alt='">> \o filename \o <<"'>">>),
             globals |-> [g EXCEPT !.path = Str(path), !.filename = Str(filename)]]

(***************************************************************************)
(* date                                                                    *)
(***************************************************************************)
Now == [t |-> "now"]
DefaultFormat == Str(<<"MMM Do, YYYY">>)

\* the instant moment(context) stands for: the current one for undefined
moment(context) == IF context = Undefined THEN Now ELSE context

\* moment(context).format(f)
moment_format(context, f) == [t |-> "formatted", of |-> moment(context), format |-> f]

\* moment(context).fromNow()
moment_fromNow(context) == [t |-> "relative", of |-> moment(context)]

date_scopeIgnored(this, context, options) ==
    LET optionsOnly == ~Truthy(options) /\ HasOwn(context, "hash")
        opts == IF optionsOnly THEN context ELSE options
        ctx0 == IF optionsOnly THEN Undefined ELSE context
        ctx == IF ctx0 = Null THEN Undefined ELSE ctx0
    IN IF ~Truthy(options) /\ ~IsObj(context) THEN TypeError
       ELSE IF ~IsObj(opts) \/ ~IsObj(Get(opts, "hash")) THEN TypeError
       ELSE LET hash == Get(opts, "hash")
                f == IF Truthy(Get(hash, "format")) THEN Get(hash, "format") ELSE DefaultFormat
            IN IF Truthy(Get(hash, "timeago")) THEN moment_fromNow(ctx) ELSE moment_format(ctx, f)

\* _helpers.date
date(this, context, options) ==
    LET optionsOnly == ~Truthy(options) /\ HasOwn(context, "hash")
        opts == IF optionsOnly THEN context ELSE options
        ctx0 == IF optionsOnly
                THEN (IF Truthy(Get(this, "publishedDate"))
                      THEN Get(this, "publishedDate") ELSE Undefined)
                ELSE context
        ctx == IF ctx0 = Null THEN Undefined ELSE ctx0
    IN IF ~Truthy(options) /\ ~IsObj(context) THEN TypeError
       ELSE IF ~IsObj(opts) \/ ~IsObj(Get(opts, "hash")) THEN TypeError
       ELSE LET hash == Get(opts, "hash")
                f == IF Truthy(Get(hash, "format")) THEN Get(hash, "format") ELSE DefaultFormat
            IN IF Truthy(Get(hash, "timeago")) THEN moment_fromNow(ctx) ELSE moment_format(ctx, f)

(***************************************************************************)
(* cloudinaryUrl, cloudinaryImg, cdnAsset                                  *)
(***************************************************************************)
\* the text of a value inside a string concatenation
ToText(x) ==
    CASE IsStr(x) -> x.v
      [] x = Null -> <<"null">>
      [] OTHER -> <<"undefined">>

\* the text of an array element inside Array.join: '' for undefined and null
JoinText(x) == IF IsStr(x) THEN x.v ELSE <<>>

\* cloudinary.url of the cloudinary package: the delivery URL of an asset.
\* The scheme is https only when asked for; a public id inside a folder gets
\* the version segment v1.
cloudinary_url(public_id, options, cloud_name) ==
    LET scheme == IF Truthy(Get(options, "secure")) THEN HTTPS ELSE HTTP
        resource_type == IF Truthy(Get(options, "resource_type"))
                         THEN Get(options, "resource_type").v ELSE <<"image">>
        transformation == IF Get(options, "fetch_format") = Str(<<"auto">>)
                          THEN <<"f_auto", "/">> ELSE <<>>
        version == IF Contains(public_id, <<"/">>) THEN <<"v", "1", "/">> ELSE <<>>
        extension == IF IsStr(Get(options, "format"))
                     THEN <<".">> \o Get(options, "format").v ELSE <<>>
    IN scheme \o <<"res.cloudinary.com", "/">> \o cloud_name \o <<"/">> \o resource_type
       \o <<"/", "upload", "/">> \o transformation \o version \o public_id \o extension

\* cloudinary.image of the cloudinary package: an <img> tag around the URL
cloudinary_image(source, options, cloud_name) ==
    <<"<img src='">> \o cloudinary_url(source, options, cloud_name) \o <<"' />">>

BuilderCall(fn, id, options, returned) ==
    [fn |-> fn, args |-> <<Str(id), options>>, ret |-> Str(returned)]

\* _helpers.cloudinaryUrl.  The result names the value returned, the options
\* object as the call leaves it, and the calls made to the URL builder.
cloudinaryUrl(this, context, options, cloud_name) ==
    LET optionsOnly == ~Truthy(options) /\ HasOwn(context, "hash")
        opts == IF optionsOnly THEN context ELSE options
        ctx0 == IF optionsOnly THEN this ELSE context
        ctx == IF ctx0 = Null THEN Undefined ELSE ctx0
    IN IF (~Truthy(options) /\ context \in {Undefined, Null})
          \/ ~IsObj(opts) \/ ~IsObj(Get(opts, "hash"))
       THEN [ret |-> TypeError, options |-> opts, collab |-> <<>>]
       ELSE
       LET hash0 == Get(opts, "hash")
           hash == IF Get(hash0, "format") # Str(<<"svg">>)
                   THEN SetProp(hash0, "fetch_format", Str(<<"auto">>)) ELSE hash0
           after == SetProp(opts, "hash", hash)
       IN IF ctx = Undefined
          THEN [ret |-> TypeError, options |-> after, collab |-> <<>>]
          ELSE IF IsObj(ctx) /\ Truthy(Get(ctx, "public_id"))
          THEN LET imageName == Get(ctx, "public_id").v \o <<".">> \o ToText(Get(ctx, "format"))
                   url == cloudinary_url(imageName, hash, cloud_name)
               IN [ret |-> Str(ReplaceFirst(url, <<"h", "t", "t", "p">>, <<"h", "t", "t", "p", "s">>)),
                   options |-> after,
                   collab |-> <<BuilderCall("cloudinary.url", imageName, hash, url)>>]
          ELSE IF IsStr(ctx)
          THEN LET tag == cloudinary_image(ctx.v, hash, cloud_name)
               IN [ret |-> Str(ReplaceFirst(tag, <<"h", "t", "t", "p">>, <<"h", "t", "t", "p", "s">>)),
                   options |-> after,
                   collab |-> <<BuilderCall("cloudinary.image", ctx.v, hash, tag)>>]
          ELSE [ret |-> Undefined, options |-> after, collab |-> <<>>]

\* the registry object, which is this when one helper calls another as its method
Registry == Obj([cloudinaryUrl |-> [t |-> "function"], cloudinaryImg |-> [t |-> "function"]])

\* _helpers.cloudinaryImg
cloudinaryImg(context, options, cloud_name) ==
    cloudinaryUrl(Registry, context, options, cloud_name)

RandomMin == 1000
RandomMax == 100000000

\* the request randomNum is given
RandomCall(r) ==
    [fn |-> "randomNum",
     args |-> <<Obj([integer |-> Bool(TRUE), min |-> Num(RandomMin), max |-> Num(RandomMax)])>>,
     ret |-> Num(r)]

\* _helpers.cdnAsset; random is the integer randomNum returns when it is asked
cdnAsset(this, context, options, cloud_name, random) ==
    LET optionsOnly == ~Truthy(options) /\ HasOwn(context, "hash")
        opts == IF optionsOnly THEN context ELSE options
    IN IF ~Truthy(options) /\ context \in {Undefined, Null}
       THEN [ret |-> TypeError, collab |-> <<>>]
       ELSE IF ~Truthy(opts) THEN [ret |-> Undefined, collab |-> <<>>]
       ELSE IF ~IsObj(Get(opts, "hash")) THEN [ret |-> TypeError, collab |-> <<>>]
       ELSE
       LET hash == Get(opts, "hash")
           env == IF Truthy(Get(hash, "env")) THEN Get(hash, "env") ELSE Str(<<"production">>)
           type == IF Truthy(Get(hash, "fetch")) THEN Get(hash, "fetch") ELSE Str(<<"raw">>)
           request == Obj([resource_type |-> type, secure |-> Bool(TRUE)])
       IN IF Truthy(Get(hash, "path"))
          THEN LET publicId == JoinText(Get(hash, "product")) \o <<"/">> \o JoinText(Get(hash, "path"))
                               \o <<".">> \o JoinText(Get(hash, "type"))
                   url == cloudinary_url(publicId, request, cloud_name)
               IN [ret |-> Str(url),
                   collab |-> <<BuilderCall("cloudinary.url", publicId, request, url)>>]
          ELSE LET publicId == JoinText(Get(hash, "product")) \o <<"/">> \o JoinText(env)
                               \o <<".">> \o JoinText(Get(hash, "type"))
                   url == cloudinary_url(publicId, request, cloud_name)
               IN [ret |-> Str(ReplaceFirst(url, <<"v", "1">>, <<"v", ToString(random)>>)),
                   collab |-> <<RandomCall(random),
                                BuilderCall("cloudinary.url", publicId, request, url)>>]

(***************************************************************************)
(* Inputs.                                                                 *)
(***************************************************************************)
TrimStrings == {Str(s) : s \in SeqsUpTo({"A", "b", " ", "U+0130"}, MaxLen)}
LimitStrings == {Str(s) : s \in SeqsUpTo({"a", "b"}, MaxLen)}
Lengths == {Num(n) : n \in 0..MaxLimit}
Nouns == {Str(s) : s \in SeqsUpTo({"A", "b", " "}, MaxLen)}

\* MIME strings, well formed and not: an optional prefix, an optional top-level
\* type with its slash, an optional subtype
MimeStrings ==
    {pre \o top \o sub :
        pre \in {<<>>, <<"x-">>},
        top \in {<<>>} \cup {<<a, "/">> : a \in {"audio", "video", "image", "application", "text"}},
        sub \in {<<>>, <<"mp3">>, <<"application", "/", "pdf">>} \cup DOMAIN cssTypesApp}
FileDescriptors ==
    {Obj(<<>>), Obj([filetype |-> Null])} \cup {Obj([filetype |-> Str(m)]) : m \in MimeStrings}

\* image descriptors: filename missing, null or present, path missing or present
ImageDescriptors ==
    {Obj(p @@ f) :
        p \in {<<>>, [path |-> Str(PublicPrefix \o <<"img">>)]},
        f \in {<<>>, [filename |-> Null], [filename |-> Str(<<"a", "'", "b">>)]}}

Dates == {[t |-> "date", v |-> 1], [t |-> "date", v |-> 2]}
Scopes == {Obj(<<>>), Obj([publishedDate |-> Null]), Obj([publishedDate |-> [t |-> "date", v |-> 1]])}
DateHashes ==
    {Obj(f @@ a) :
        f \in {<<>>, [format |-> Str(<<"MM YYYY">>)]},
        a \in {<<>>, [timeago |-> Bool(TRUE)], [timeago |-> Bool(FALSE)]}}
DateOptions == {Obj([hash |-> h]) : h \in DateHashes}

\* what cloudinaryUrl is given to show: two asset descriptors, a bare asset id,
\* a missing image
Assets ==
    {Obj([public_id |-> Str(<<"sample">>), format |-> Str(<<"jpg">>)]),
     Obj([public_id |-> Str(<<"site", "/", "logo">>), format |-> Str(<<"png">>)])}
ImageContexts == Assets \cup {Str(<<"sample">>), Null}
ImageHashes ==
    {Obj(f @@ x) :
        f \in {<<>>, [format |-> Str(<<"svg">>)]},
        x \in {<<>>, [secure |-> Bool(TRUE)]}}
ImageOptions == {Obj([hash |-> h]) : h \in ImageHashes}

\* the cloud names the host application may have configured
CloudNames == {<<"d", "e", "m", "o">>, <<"d", "e", "v", "1">>}

CdnHashes ==
    {Obj([product |-> Str(<<"site">>), type |-> Str(<<"js">>)] @@ e @@ q @@ f) :
        e \in {<<>>, [env |-> Str(<<"staging">>)]},
        q \in {<<>>, [path |-> Str(<<"js", "/", "app">>)]},
        f \in {<<>>, [fetch |-> Str(<<"image">>)]}}
CdnOptions == {Obj([hash |-> h]) : h \in CdnHashes}
RandomDraws == {RandomMin, 31337, RandomMax}

UrlBodies == SeqsUpTo({"x"}, MaxBodyLen)
Schemes == {<<>>, HTTP, HTTPS}
Urls == {p \o b \o q \o c : p \in Schemes, q \in Schemes, b \in UrlBodies, c \in UrlBodies}

(***************************************************************************)
(* The calls.                                                              *)
(***************************************************************************)
NoGlobals == [path |-> Undefined, filename |-> Undefined, string |-> Undefined]

Init ==
    /\ helper = "none"
    /\ scope = Undefined
    /\ args = <<>>
    /\ argsAfter = <<>>
    /\ ret = Undefined
    /\ globals = NoGlobals
    /\ collab = <<>>

\* the outcome of a call that touches neither its arguments nor anything else
Pure(a, r) ==
    /\ scope' = Undefined
    /\ args' = a
    /\ argsAfter' = a
    /\ ret' = r
    /\ collab' = <<>>
    /\ UNCHANGED globals

CallTrim ==
    \E s \in TrimStrings :
        /\ helper' = "trim"
        /\ Pure(<<s>>, trim(s))

CallLimit ==
    \E s \in LimitStrings, n \in Lengths :
        /\ helper' = "limit"
        /\ Pure(<<s, n>>, limit(s, n))

CallPluralize ==
    \E s \in Nouns :
        /\ helper' = "pluralize"
        /\ Pure(<<s>>, pluralize(s))

CallTrimPluralize ==
    \E s \in Nouns :
        /\ helper' = "trimPluralize"
        /\ Pure(<<s>>, trimPluralize(s))

CallSecureUrl ==
    \E u \in {Undefined} \cup {Str(s) : s \in Urls} :
        /\ helper' = "secureUrl"
        /\ Pure(<<u>>, secureUrl(u))

CallFileType ==
    \E f \in FileDescriptors :
        /\ helper' = "fileType"
        /\ Pure(<<f>>, fileType(f))

CallImg ==
    \E image \in ImageDescriptors, strictBuild \in BOOLEAN :
        /\ helper' = "img"
        /\ scope' = Undefined
        /\ args' = <<image>>
        /\ argsAfter' = <<image>>
        /\ ret' = img(image, globals, strictBuild).ret
        /\ globals' = img(image, globals, strictBuild).globals
        /\ collab' = <<>>

\* {{date value format=...}}: the engine passes the value and the options
CallDate ==
    \E this \in Scopes, context \in Dates \cup {Undefined, Null}, options \in DateOptions :
        /\ helper' = "date"
        /\ scope' = this
        /\ args' = <<context, options>>
        /\ argsAfter' = <<context, options>>
        /\ ret' = date(this, context, options)
        /\ collab' = <<>>
        /\ UNCHANGED globals

\* {{date format=...}}: the engine passes the options alone
CallDateOptionsOnly ==
    \E this \in Scopes, options \in DateOptions :
        /\ helper' = "date"
        /\ scope' = this
        /\ args' = <<options>>
        /\ argsAfter' = <<options>>
        /\ ret' = date(this, options, Undefined)
        /\ collab' = <<>>
        /\ UNCHANGED globals

\* {{cloudinaryUrl image width=...}}
CallCloudinaryUrl ==
    \E this \in {Obj(<<>>)}, context \in ImageContexts, options \in ImageOptions, cloud \in CloudNames :
        LET r == cloudinaryUrl(this, context, options, cloud)
        IN /\ helper' = "cloudinaryUrl"
           /\ scope' = this
           /\ args' = <<context, options>>
           /\ argsAfter' = <<context, r.options>>
           /\ ret' = r.ret
           /\ collab' = r.collab
           /\ UNCHANGED globals

\* {{cloudinaryUrl width=...}} inside a block whose scope is the image
CallCloudinaryUrlOptionsOnly ==
    \E this \in Assets \cup {Obj(<<>>)}, options \in ImageOptions, cloud \in CloudNames :
        LET r == cloudinaryUrl(this, options, Undefined, cloud)
        IN /\ helper' = "cloudinaryUrl"
           /\ scope' = this
           /\ args' = <<options>>
           /\ argsAfter' = <<r.options>>
           /\ ret' = r.ret
           /\ collab' = r.collab
           /\ UNCHANGED globals

CallCloudinaryImg ==
    \E this \in {Obj(<<>>)}, context \in ImageContexts, options \in ImageOptions, cloud \in CloudNames :
        LET r == cloudinaryImg(context, options, cloud)
        IN /\ helper' = "cloudinaryImg"
           /\ scope' = this
           /\ args' = <<context, options>>
           /\ argsAfter' = <<context, r.options>>
           /\ ret' = r.ret
           /\ collab' = r.collab
           /\ UNCHANGED globals

\* {{{cdnAsset product=... type=...}}}
CallCdnAsset ==
    \E this \in {Obj(<<>>)}, options \in CdnOptions, cloud \in CloudNames, random \in RandomDraws :
        LET r == cdnAsset(this, options, Undefined, cloud, random)
        IN /\ helper' = "cdnAsset"
           /\ scope' = this
           /\ args' = <<options>>
           /\ argsAfter' = <<options>>
           /\ ret' = r.ret
           /\ collab' = r.collab
           /\ UNCHANGED globals

Next ==
    \/ CallTrim
    \/ CallLimit
    \/ CallPluralize
    \/ CallTrimPluralize
    \/ CallSecureUrl
    \/ CallFileType
    \/ CallImg
    \/ CallDate
    \/ CallDateOptionsOnly
    \/ CallCloudinaryUrl
    \/ CallCloudinaryUrlOptionsOnly
    \/ CallCloudinaryImg
    \/ CallCdnAsset

Spec == Init /\ [][Next]_vars

(***************************************************************************)
(* Properties.                                                             *)
(***************************************************************************)
\* the options of a date call, whichever form it took
C1_Hash == Get(args[Len(args)], "hash")

\* the instant C1 says a date call formats
C1_Value ==
    IF Len(args) = 1
    THEN (IF Get(scope, "publishedDate") \in {Undefined, Null}
          THEN Now ELSE Get(scope, "publishedDate"))
    ELSE (IF args[1] \in {Undefined, Null} THEN Now ELSE args[1])

\* C1: date called with the options alone takes the rendering scope's
\* publishedDate, or the current instant when the scope has none; called with a
\* context and options it takes that context, null standing for the current
\* instant.  With timeago=true the result is the relative time of that value,
\* whatever the format; otherwise it is the value formatted with hash.format, or
\* with 'MMM Do, YYYY' when there is no format.
C1_Date ==
    helper = "date" =>
        IF Get(C1_Hash, "timeago") = Bool(TRUE)
        THEN ret = [t |-> "relative", of |-> C1_Value]
        ELSE ret = [t |-> "formatted", of |-> C1_Value,
                    format |-> IF HasOwn(C1_Hash, "format")
                               THEN Get(C1_Hash, "format") ELSE Str(<<"MMM Do, YYYY">>)]

C1_Witness ==
    /\ helper = "date"
    /\ Len(args) = 1
    /\ Get(scope, "publishedDate") \in Dates
    /\ ~HasOwn(C1_Hash, "timeago")
    /\ ret.t = "formatted"
    /\ ret.of = Get(scope, "publishedDate")

HasScheme(s) == StartsWith(s, HTTP) \/ StartsWith(s, HTTPS)
AfterScheme(s) ==
    IF StartsWith(s, HTTPS) THEN SubSeq(s, Len(HTTPS) + 1, Len(s))
    ELSE SubSeq(s, Len(HTTP) + 1, Len(s))

\* C2: cloudinaryUrl and cloudinaryImg, given a descriptor with a public_id or
\* a string identifier, return the URL the builder returned with its scheme
\* exactly https://, whether the builder's scheme was http:// or https://.
C2_ForcesHttps ==
    (helper \in {"cloudinaryUrl", "cloudinaryImg"} /\ collab # <<>>
        /\ HasScheme(collab[1].ret.v)) =>
        ret = Str(HTTPS \o AfterScheme(collab[1].ret.v))

\* C3: every argument of every call, the options record and its hash map
\* included, has the same contents after the call as before it.
C3_ArgumentsUnchanged == argsAfter = args

\* C4: no helper writes a variable outside its arguments and locals, so the
\* global state the next call sees is the one before the first call; img's path
\* and filename do not outlive the call.
C4_NoStateRetained == globals = NoGlobals

\* the builder's URL with the version segment behind /upload/ replaced
C5_VersionReplaced(url, r) ==
    LET i == IndexOf(url, <<"/", "upload", "/", "v", "1", "/">>)
    IN SubSeq(url, 1, i + 2) \o <<"v", ToString(r)>> \o SubSeq(url, i + 5, Len(url))

\* C5: cdnAsset asks the builder for a secure URL of resource type fetch, or
\* 'raw' without fetch.  With a path the asset id is product/path.type, the
\* builder's URL is returned as it is and no random number is drawn; without
\* one the asset id is product/env.type, env being 'production' by default, and
\* the result is the builder's URL with its version segment v1 replaced by v
\* and a random integer between 1000 and 100000000, the rest unchanged.
C5_CdnAsset ==
    helper = "cdnAsset" =>
        LET hash == Get(args[1], "hash")
            asked == SelectSeq(collab, LAMBDA c : c.fn = "cloudinary.url")
            drawn == SelectSeq(collab, LAMBDA c : c.fn = "randomNum")
            fetch == IF HasOwn(hash, "fetch") THEN Get(hash, "fetch") ELSE Str(<<"raw">>)
            env == IF HasOwn(hash, "env") THEN Get(hash, "env").v ELSE <<"production">>
            product == Get(hash, "product").v
            type == Get(hash, "type").v
        IN /\ Len(asked) = 1
           /\ asked[1].args[2] = Obj([resource_type |-> fetch, secure |-> Bool(TRUE)])
           /\ HasOwn(hash, "path") =>
                  /\ asked[1].args[1] = Str(product \o <<"/">> \o Get(hash, "path").v \o <<".">> \o type)
                  /\ ret = asked[1].ret
                  /\ drawn = <<>>
           /\ ~HasOwn(hash, "path") =>
                  /\ asked[1].args[1] = Str(product \o <<"/">> \o env \o <<".">> \o type)
                  /\ Len(drawn) = 1
                  /\ drawn[1].ret.v >= 1000 /\ drawn[1].ret.v <= 100000000
                  /\ ret = Str(C5_VersionReplaced(asked[1].ret.v, drawn[1].ret.v))

\* C6: img never raises; for a descriptor without a filename (undefined or
\* null) it returns a safe string wrapping ''; for one with a filename it returns
\* a safe string holding the <img> tag whose src is the escaped path, its
\* './public/' prefix removed, then '/' and the escaped filename.
C6_Img ==
    helper = "img" =>
        LET image == args[1]
            path == escapeExpression(Get(image, "path"))
            src == IF StartsWith(path, PublicPrefix)
                   THEN SubSeq(path, Len(PublicPrefix) + 1, Len(path)) ELSE path
            filename == escapeExpression(Get(image, "filename"))
        IN /\ ~Raised(ret)
           /\ Get(image, "filename") \in {Undefined, Null} =>
                  ret = [t |-> "SafeString", string |-> Str(<<>>)]
           /\ Get(image, "filename") \notin {Undefined, Null} =>
                  /\ ret.t = "SafeString"
                  /\ StartsWith(ret.string, <<"<img src='">> \o src \o <<"/">> \o filename \o <<"'">>)

\* The result the claim C7 gives for a descriptor
C7_Expected(file) ==
    LET ft == Get(file, "filetype")
    IN IF ~IsStr(ft) THEN Str(<<"file">>)
       ELSE IF StartsWith(ft.v, <<"audio", "/">>) THEN Str(<<"audio", "-o">>)
       ELSE IF StartsWith(ft.v, <<"video", "/">>) THEN Str(<<"video", "-o">>)
       ELSE IF StartsWith(ft.v, <<"image", "/">>) THEN Str(<<"image", "-o">>)
       ELSE IF \E k \in DOMAIN cssTypesApp : ft.v = <<"application", "/">> \o k
            THEN Str(cssTypesApp[SubSeq(ft.v, 3, Len(ft.v))] \o <<"-o">>)
            ELSE Str(<<"file">>)

\* C7: fileType gives audio-o, video-o or image-o for a filetype of that
\* top-level type, the table's icon suffixed -o for 'application/' followed by
\* a key of the table, and 'file' for every other filetype and for a missing
\* filetype field; it gives no other value.
C7_FileType == helper = "fileType" => ret = C7_Expected(args[1])

Max(a, b) == IF a >= b THEN a ELSE b

\* C8: limit(s, n) returns s unchanged when len(s) <= n (the boundary
\* len(s) = n included), and otherwise the first n characters of s followed
\* by '...'; so the output is never longer than max(len(s), n + 3).
C8_Limit ==
    helper = "limit" =>
        LET s == args[1].v
            n == args[2].v
        IN /\ Len(s) <= n => ret = Str(s)
           /\ Len(s) > n => ret = Str(SubSeq(s, 1, n) \o <<".", ".", ".">>)
           /\ Len(ret.v) <= Max(Len(s), n + 3)

C8_Witness ==
    /\ helper = "limit"
    /\ Len(args[1].v) = args[2].v
    /\ args[2].v > 0
    /\ ret = args[1]

\* A URL with one scheme prefix and no further scheme inside it
SingleScheme(s) ==
    \/ StartsWith(s, HTTP) /\ ~Contains(SubSeq(s, Len(HTTP) + 1, Len(s)), HTTP)
    \/ StartsWith(s, HTTPS) /\ ~Contains(s, HTTP)

\* C9: secureUrl(undefined) is undefined; a string starting with 'http://'
\* comes back with that prefix replaced by 'https://'; a string starting with
\* 'https://' that contains no 'http://' comes back unchanged; and on a URL
\* with a single scheme prefix a second application changes nothing.
C9_SecureUrl ==
    helper = "secureUrl" =>
        LET u == args[1]
        IN /\ u = Undefined => ret = Undefined
           /\ (IsStr(u) /\ StartsWith(u.v, HTTP)) =>
                  ret = Str(HTTPS \o SubSeq(u.v, Len(HTTP) + 1, Len(u.v)))
           /\ (IsStr(u) /\ StartsWith(u.v, HTTPS) /\ ~Contains(u.v, HTTP)) => ret = u
           /\ (IsStr(u) /\ SingleScheme(u.v)) => secureUrl(ret) = ret

C9_Witness ==
    /\ helper = "secureUrl"
    /\ IsStr(args[1])
    /\ StartsWith(args[1].v, HTTPS)
    /\ Len(args[1].v) > Len(HTTPS)
    /\ ret = args[1]

NoSpace(s) == \A i \in 1..Len(s) : s[i] # " "
NoUpper(s) == \A i \in 1..Len(s) : s[i] \notin Upper
\* every character of s lowercases to one character
SingleUnitCase(s) == \A i \in 1..Len(s) : Len(LowerOf(s[i])) = 1

TrimThenPluralized(s, r) ==
    r = Str(ToLowerCase(ReplaceAllChar(pluralize_plural(s.v), " ", <<"-">>)))

====
